---- MODULE Spec2Model ----
(***************************************************************************)
(* Verification model of yaml-rust-formatter's src/yaml.rs: the YamlInput  *)
(* value model, the YamlLoader event receiver (a stack machine), scalar    *)
(* type resolution, typed accessors and the Index operators.              *)
(*                                                                         *)
(* Conventions.  A text (Rust String / &str) is a sequence of one-character*)
(* strings.  Option<T> is a sequence of length 0 (None) or 1 (Some).  A    *)
(* LinkedHashMap is the sequence of its <<key, value>> entries in          *)
(* iteration order.                                                        *)
(***************************************************************************)
EXTENDS Integers, Sequences, FiniteSets, TLC

None == <<>>
Some(x) == <<x>>

(***************************************************************************)
(* The YamlInput enumeration.                                              *)
(***************************************************************************)
Real(s) == [t |-> "Real", s |-> s]
Integer(i) == [t |-> "Integer", i |-> i]
String(s) == [t |-> "String", s |-> s]
Boolean(b) == [t |-> "Boolean", b |-> b]
Array(a) == [t |-> "Array", a |-> a]
Hash(h) == [t |-> "Hash", h |-> h]
Anchored(n, c) == [t |-> "Anchored", n |-> n, c |-> c]
Aliased(n, o) == [t |-> "Aliased", n |-> n, o |-> o]
Null == [t |-> "Null"]
BadValue == [t |-> "BadValue"]

(***************************************************************************)
(* Integer parsing: i64::from_str_radix and str::parse::<i64>.  The i64    *)
(* range is decided on the digit string itself, so that the overflow       *)
(* answer is exact at the full 64-bit width.                               *)
(***************************************************************************)
NoDigit == 99

DigitValue(c) ==
    CASE c = "0" -> 0 [] c = "1" -> 1 [] c = "2" -> 2 [] c = "3" -> 3
      [] c = "4" -> 4 [] c = "5" -> 5 [] c = "6" -> 6 [] c = "7" -> 7
      [] c = "8" -> 8 [] c = "9" -> 9
      [] c \in {"a", "A"} -> 10 [] c \in {"b", "B"} -> 11
      [] c \in {"c", "C"} -> 12 [] c \in {"d", "D"} -> 13
      [] c \in {"e", "E"} -> 14 [] c \in {"f", "F"} -> 15
      [] OTHER -> NoDigit

to_digit(c, radix) ==
    IF DigitValue(c) < radix THEN DigitValue(c) ELSE NoDigit

RECURSIVE StripZeros(_)
StripZeros(ds) ==
    IF ds # <<>> /\ ds[1] = 0 THEN StripZeros(Tail(ds)) ELSE ds

\* lexicographic <= on digit sequences of equal length
RECURSIVE DigitsLeq(_, _)
DigitsLeq(a, b) ==
    IF a = <<>> THEN TRUE
    ELSE IF a[1] # b[1] THEN a[1] < b[1]
    ELSE DigitsLeq(Tail(a), Tail(b))

\* the digits of i64::MAX = 2^63 - 1 in the three radices the code uses
I64MaxDigits(radix) ==
    CASE radix = 10 -> <<9,2,2,3,3,7,2,0,3,6,8,5,4,7,7,5,8,0,7>>
      [] radix = 16 -> <<7,15,15,15,15,15,15,15,15,15,15,15,15,15,15,15>>
      [] radix = 8 -> <<7,7,7,7,7,7,7,7,7,7,7,7,7,7,7,7,7,7,7,7,7>>

\* the digits of |i64::MIN| = 2^63
I64MinDigits(radix) ==
    CASE radix = 10 -> <<9,2,2,3,3,7,2,0,3,6,8,5,4,7,7,5,8,0,8>>
      [] radix = 16 -> <<8,0,0,0,0,0,0,0,0,0,0,0,0,0,0,0>>
      [] radix = 8 -> <<1,0,0,0,0,0,0,0,0,0,0,0,0,0,0,0,0,0,0,0,0,0>>

MagnitudeLeq(ds, lim) ==
    LET m == StripZeros(ds)
    IN  \/ Len(m) < Len(lim)
        \/ Len(m) = Len(lim) /\ DigitsLeq(m, lim)

FitsI64(ds, radix, neg) ==
    MagnitudeLeq(ds, IF neg THEN I64MinDigits(radix) ELSE I64MaxDigits(radix))

RECURSIVE DigitsToInt(_, _, _)
DigitsToInt(ds, radix, acc) ==
    IF ds = <<>> THEN acc
    ELSE DigitsToInt(Tail(ds), radix, acc * radix + ds[1])

\* i64::from_str_radix: optional sign, at least one digit, checked overflow
from_str_radix(src, radix) ==
    IF src = <<>> THEN None
    ELSE LET neg == src[1] = "-"
             body == IF src[1] \in {"+", "-"} THEN Tail(src) ELSE src
             ds == [k \in 1..Len(body) |-> to_digit(body[k], radix)]
         IN  IF body = <<>> THEN None
             ELSE IF \E k \in 1..Len(ds) : ds[k] = NoDigit THEN None
             ELSE IF ~FitsI64(ds, radix, neg) THEN None
             ELSE Some((IF neg THEN -1 ELSE 1) * DigitsToInt(StripZeros(ds), radix, 0))

parse_i64(v) == from_str_radix(v, 10)

\* str::parse::<bool>: exactly "true" or "false"
parse_bool(v) ==
    IF v = <<"t","r","u","e">> THEN Some(TRUE)
    ELSE IF v = <<"f","a","l","s","e">> THEN Some(FALSE)
    ELSE None

strip_prefix(v, p) ==
    IF Len(v) >= Len(p) /\ SubSeq(v, 1, Len(p)) = p
    THEN Some(SubSeq(v, Len(p) + 1, Len(v)))
    ELSE None

(***************************************************************************)
(* Float parsing: str::parse::<f64> and parse_f64.  A parsed float is      *)
(* Inf(neg), NaN, or a finite decimal normalised to sign, significant      *)
(* digits and decimal exponent.                                            *)
(***************************************************************************)
Inf(neg) == [cls |-> "inf", neg |-> neg]
NaN == [cls |-> "nan"]
Finite(neg, mant, exp) == [cls |-> "finite", neg |-> neg, mant |-> mant, exp |-> exp]

ToLower(c) ==
    CASE c = "I" -> "i" [] c = "N" -> "n" [] c = "F" -> "f" [] c = "A" -> "a"
      [] c = "E" -> "e" [] c = "T" -> "t" [] c = "Y" -> "y"
      [] OTHER -> c

IsDigits(s) == \A k \in 1..Len(s) : to_digit(s[k], 10) # NoDigit

\* index of the first occurrence of c in s, or 0
RECURSIVE IndexOf(_, _, _)
IndexOf(s, c, k) ==
    IF k > Len(s) THEN 0
    ELSE IF s[k] = c THEN k
    ELSE IndexOf(s, c, k + 1)

RECURSIVE StripTrailingZeros(_, _)
StripTrailingZeros(ds, exp) ==
    IF ds # <<>> /\ ds[Len(ds)] = 0
    THEN StripTrailingZeros(SubSeq(ds, 1, Len(ds) - 1), exp + 1)
    ELSE <<ds, exp>>

Normalise(neg, ds, exp) ==
    LET lead == StripZeros(ds)
        r == StripTrailingZeros(lead, exp)
    IN  IF r[1] = <<>> THEN Finite(neg, <<>>, 0) ELSE Finite(neg, r[1], r[2])

\* Number ::= ( Digit+ | Digit+ '.' Digit* | Digit* '.' Digit+ ) Exp?
\* Exp    ::= 'e' Sign? Digit+
parse_number(neg, s) ==
    LET epos == IndexOf(s, "e", 1)
        mantissa == IF epos = 0 THEN s ELSE SubSeq(s, 1, epos - 1)
        exptext == IF epos = 0 THEN <<>> ELSE SubSeq(s, epos + 1, Len(s))
        expneg == exptext # <<>> /\ exptext[1] = "-"
        expds == IF exptext # <<>> /\ exptext[1] \in {"+", "-"}
                 THEN Tail(exptext) ELSE exptext
        dot == IndexOf(mantissa, ".", 1)
        ipart == IF dot = 0 THEN mantissa ELSE SubSeq(mantissa, 1, dot - 1)
        fpart == IF dot = 0 THEN <<>> ELSE SubSeq(mantissa, dot + 1, Len(mantissa))
        digit(c) == to_digit(c, 10)
        expval == (IF expneg THEN -1 ELSE 1)
                  * DigitsToInt([k \in 1..Len(expds) |-> digit(expds[k])], 10, 0)
        all == ipart \o fpart
    IN  IF ~IsDigits(ipart) \/ ~IsDigits(fpart) \/ all = <<>> THEN None
        ELSE IF epos # 0 /\ (expds = <<>> \/ ~IsDigits(expds)) THEN None
        ELSE Some(Normalise(neg, [k \in 1..Len(all) |-> digit(all[k])],
                            (IF epos = 0 THEN 0 ELSE expval) - Len(fpart)))

\* Float ::= Sign? ( 'inf' | 'infinity' | 'nan' | Number ), case-insensitive
parse_f64_std(v) ==
    IF v = <<>> THEN None
    ELSE LET neg == v[1] = "-"
             body == IF v[1] \in {"+", "-"} THEN Tail(v) ELSE v
             low == [k \in 1..Len(body) |-> ToLower(body[k])]
         IN  IF low \in {<<"i","n","f">>, <<"i","n","f","i","n","i","t","y">>}
             THEN Some(Inf(neg))
             ELSE IF low = <<"n","a","n">> THEN Some(NaN)
             ELSE parse_number(neg, low)

\* a parse_f64 that knows only the lower-case spellings of the literals
parse_f64_lower_only(v) ==
    IF v \in {<<".","i","n","f">>, <<"+",".","i","n","f">>}
    THEN Some(Inf(FALSE))
    ELSE IF v = <<"-",".","i","n","f">>
    THEN Some(Inf(TRUE))
    ELSE IF v = <<".","n","a","n">>
    THEN Some(NaN)
    ELSE parse_f64_std(v)

parse_f64(v) ==
    IF v \in {<<".","i","n","f">>, <<".","I","n","f">>, <<".","I","N","F">>,
              <<"+",".","i","n","f">>, <<"+",".","I","n","f">>,
              <<"+",".","I","N","F">>}
    THEN Some(Inf(FALSE))
    ELSE IF v \in {<<"-",".","i","n","f">>, <<"-",".","I","n","f">>,
                   <<"-",".","I","N","F">>}
    THEN Some(Inf(TRUE))
    ELSE IF v \in {<<".","n","a","n">>, <<"N","a","N">>, <<".","N","A","N">>}
    THEN Some(NaN)
    ELSE parse_f64_std(v)

(***************************************************************************)
(* YamlInput::from_str: resolution of a plain, untagged scalar.            *)
(***************************************************************************)
\* from_str without the 0x and 0o rules
from_str_no_radix(v) ==
    LET plus == strip_prefix(v, <<"+">>)
    IN  IF plus # None /\ parse_i64(plus[1]) # None
        THEN Integer(parse_i64(plus[1])[1])
        ELSE IF v \in {<<"~">>, <<"n","u","l","l">>} THEN Null
        ELSE IF v = <<"t","r","u","e">> THEN Boolean(TRUE)
        ELSE IF v = <<"f","a","l","s","e">> THEN Boolean(FALSE)
        ELSE IF parse_i64(v) # None THEN Integer(parse_i64(v)[1])
        ELSE IF parse_f64(v) # None THEN Real(v)
        ELSE String(v)

from_str(v) ==
    LET hex == strip_prefix(v, <<"0","x">>)
        oct == strip_prefix(v, <<"0","o">>)
        plus == strip_prefix(v, <<"+">>)
    IN  IF hex # None /\ from_str_radix(hex[1], 16) # None
        THEN Integer(from_str_radix(hex[1], 16)[1])
        ELSE IF oct # None /\ from_str_radix(oct[1], 8) # None
        THEN Integer(from_str_radix(oct[1], 8)[1])
        ELSE IF plus # None /\ parse_i64(plus[1]) # None
        THEN Integer(parse_i64(plus[1])[1])
        ELSE IF v \in {<<"~">>, <<"n","u","l","l">>} THEN Null
        ELSE IF v = <<"t","r","u","e">> THEN Boolean(TRUE)
        ELSE IF v = <<"f","a","l","s","e">> THEN Boolean(FALSE)
        ELSE IF parse_i64(v) # None THEN Integer(parse_i64(v)[1])
        ELSE IF parse_f64(v) # None THEN Real(v)
        ELSE String(v)

(***************************************************************************)
(* Predicates and typed accessors of YamlInput.                            *)
(***************************************************************************)
is_null(y) == y.t = "Null"

\* a predicate that counts an alias without payload as a bad value
is_badvalue_unresolved(y) ==
    y.t = "BadValue" \/ (y.t = "Aliased" /\ y.o = None)

is_badvalue(y) == y.t = "BadValue"

is_array(y) == y.t = "Array"

\* define_as / define_as_ref / define_into instantiated for variant yt: the
\* payload field of the variant is returned, wrappers are looked through
RECURSIVE as_variant(_, _)
as_variant(y, yt) ==
    CASE y.t = yt ->
           Some(CASE yt = "Boolean" -> y.b [] yt = "Integer" -> y.i
                  [] yt = "String" -> y.s [] yt = "Hash" -> y.h
                  [] yt = "Array" -> y.a)
      [] y.t = "Aliased" /\ yt # "Aliased" ->
           IF y.o = None THEN None ELSE as_variant(y.o[1], yt)
      [] y.t = "Anchored" /\ yt # "Anchored" -> as_variant(y.c, yt)
      [] OTHER -> None

as_bool(y) == as_variant(y, "Boolean")
as_i64(y) == as_variant(y, "Integer")
as_str(y) == as_variant(y, "String")
as_hash(y) == as_variant(y, "Hash")
as_vec(y) == as_variant(y, "Array")
into_bool(y) == as_variant(y, "Boolean")
into_i64(y) == as_variant(y, "Integer")
into_string(y) == as_variant(y, "String")
into_hash(y) == as_variant(y, "Hash")
into_vec(y) == as_variant(y, "Array")

as_f64(y) == IF y.t = "Real" THEN parse_f64(y.s) ELSE None

into_f64(y) == IF y.t = "Real" THEN parse_f64(y.s) ELSE None

(***************************************************************************)
(* LinkedHashMap<YamlInput, YamlInput> as used by the loader and by Index. *)
(***************************************************************************)
\* position of key k among the entries, or 0
RECURSIVE hash_find(_, _, _)
hash_find(h, k, i) ==
    IF i > Len(h) THEN 0
    ELSE IF h[i][1] = k THEN i
    ELSE hash_find(h, k, i + 1)

hash_get(h, k) ==
    IF hash_find(h, k, 1) = 0 THEN None ELSE Some(h[hash_find(h, k, 1)][2])

\* insert that attaches the entry first instead of last
hash_insert_front(h, k, v) ==
    LET i == hash_find(h, k, 1)
    IN  IF i = 0 THEN <<<<k, v>>>> \o h
        ELSE <<<<h[i][1], v>>>> \o SubSeq(h, 1, i - 1) \o SubSeq(h, i + 1, Len(h))

\* insert: a new key is attached last; an existing key keeps its key object,
\* takes the new value and is re-attached last
hash_insert(h, k, v) ==
    LET i == hash_find(h, k, 1)
    IN  IF i = 0 THEN Append(h, <<k, v>>)
        ELSE Append(SubSeq(h, 1, i - 1) \o SubSeq(h, i + 1, Len(h)), <<h[i][1], v>>)

(***************************************************************************)
(* YamlOutput and Into<YamlOutput> for YamlInput.                          *)
(***************************************************************************)
OutReal(s) == [out |-> "Real", s |-> s]
OutInteger(i) == [out |-> "Integer", i |-> i]
OutString(s) == [out |-> "String", s |-> s]
OutBoolean(b) == [out |-> "Boolean", b |-> b]
OutArray(a) == [out |-> "Array", a |-> a]
OutHash(h) == [out |-> "Hash", h |-> h]
OutAnchored(n, c) == [out |-> "Anchored", n |-> n, c |-> c]
OutAlias(n) == [out |-> "Alias", n |-> n]
OutNull == [out |-> "Null"]
OutBadValue == [out |-> "BadValue"]

\* Iterator::collect into a LinkedHashMap: the pairs inserted in order
RECURSIVE collect(_, _)
collect(pairs, acc) ==
    IF pairs = <<>> THEN acc
    ELSE collect(Tail(pairs), hash_insert(acc, pairs[1][1], pairs[1][2]))

RECURSIVE into(_)
\* a conversion that writes a resolved alias out as the node it refers to
into_inline(y) ==
    CASE y.t = "Real" -> OutReal(y.s)
      [] y.t = "Integer" -> OutInteger(y.i)
      [] y.t = "String" -> OutString(y.s)
      [] y.t = "Boolean" -> OutBoolean(y.b)
      [] y.t = "Array" -> OutArray([j \in 1..Len(y.a) |-> into(y.a[j])])
      [] y.t = "Hash" ->
           OutHash(collect([j \in 1..Len(y.h) |-> <<into(y.h[j][1]), into(y.h[j][2])>>],
                           <<>>))
      [] y.t = "Anchored" -> OutAnchored(y.n, into(y.c))
      [] y.t = "Aliased" -> IF y.o = None THEN OutAlias(y.n) ELSE into(y.o[1])
      [] y.t = "Null" -> OutNull
      [] y.t = "BadValue" -> OutBadValue

into(y) ==
    CASE y.t = "Real" -> OutReal(y.s)
      [] y.t = "Integer" -> OutInteger(y.i)
      [] y.t = "String" -> OutString(y.s)
      [] y.t = "Boolean" -> OutBoolean(y.b)
      [] y.t = "Array" -> OutArray([j \in 1..Len(y.a) |-> into(y.a[j])])
      [] y.t = "Hash" ->
           OutHash(collect([j \in 1..Len(y.h) |-> <<into(y.h[j][1]), into(y.h[j][2])>>],
                           <<>>))
      [] y.t = "Anchored" -> OutAnchored(y.n, into(y.c))
      [] y.t = "Aliased" -> OutAlias(y.n)
      [] y.t = "Null" -> OutNull
      [] y.t = "BadValue" -> OutBadValue

(***************************************************************************)
(* Index<&str> and Index<usize>.                                           *)
(***************************************************************************)
index_str(y, idx) ==
    LET key == String(idx)
    IN  IF as_hash(y) # None
        THEN (IF hash_get(as_hash(y)[1], key) # None
              THEN hash_get(as_hash(y)[1], key)[1] ELSE BadValue)
        ELSE BadValue

\* usize values: the small ones, and the ones at the top of the 64-bit range.
\* USize(n) is n and USizeTop(k) is 2^64 - k, for small n and k.
USize(n) == [top |-> FALSE, n |-> n]
USizeTop(k) == [top |-> TRUE, n |-> k]

\* idx as i64: the 64 bits read as a signed number, so 2^64 - k becomes -k
usize_as_i64(idx) == IF idx.top THEN 0 - idx.n ELSE idx.n

\* Vec::get(idx)
vec_get(a, idx) ==
    IF ~idx.top /\ idx.n < Len(a) THEN Some(a[idx.n + 1]) ELSE None

\* Index<usize> without the Hash branch
index_usize_array_only(y, idx) ==
    IF as_vec(y) # None
    THEN (IF vec_get(as_vec(y)[1], idx) # None
          THEN vec_get(as_vec(y)[1], idx)[1] ELSE BadValue)
    ELSE BadValue

index_usize(y, idx) ==
    IF as_vec(y) # None
    THEN (IF vec_get(as_vec(y)[1], idx) # None
          THEN vec_get(as_vec(y)[1], idx)[1] ELSE BadValue)
    ELSE IF as_hash(y) # None
    THEN LET key == Integer(usize_as_i64(idx))
         IN  IF hash_get(as_hash(y)[1], key) # None
             THEN hash_get(as_hash(y)[1], key)[1] ELSE BadValue
    ELSE BadValue

(***************************************************************************)
(* Events of the parser (Event) and the scalar arm of on_event.            *)
(***************************************************************************)
Tag(handle, suffix) == [handle |-> handle, suffix |-> suffix]

ScalarEvent(v, style, aid, tag) ==
    [k |-> "Scalar", v |-> v, style |-> style, aid |-> aid, tag |-> tag]
AliasEvent(id) == [k |-> "Alias", id |-> id]
SequenceStartEvent(aid) == [k |-> "SequenceStart", aid |-> aid]
MappingStartEvent(aid) == [k |-> "MappingStart", aid |-> aid]

\* the tagged branch of the scalar arm: a plain scalar that carries a tag
tagged_node_lenient(v, tag) ==
    IF tag.handle = "!!"
    THEN CASE tag.suffix = "bool" ->
                (IF parse_bool(v) = None THEN String(v) ELSE Boolean(parse_bool(v)[1]))
           [] tag.suffix = "int" ->
                (IF parse_i64(v) = None THEN String(v) ELSE Integer(parse_i64(v)[1]))
           [] tag.suffix = "float" ->
                (IF parse_f64(v) # None THEN Real(v) ELSE String(v))
           [] tag.suffix = "null" ->
                (IF v \in {<<"~">>, <<"n","u","l","l">>} THEN Null ELSE String(v))
           [] OTHER -> String(v)
    ELSE String(v)

tagged_node(v, tag) ==
    IF tag.handle = "!!"
    THEN CASE tag.suffix = "bool" ->
                (IF parse_bool(v) = None THEN BadValue ELSE Boolean(parse_bool(v)[1]))
           [] tag.suffix = "int" ->
                (IF parse_i64(v) = None THEN BadValue ELSE Integer(parse_i64(v)[1]))
           [] tag.suffix = "float" ->
                (IF parse_f64(v) # None THEN Real(v) ELSE BadValue)
           [] tag.suffix = "null" ->
                (IF v \in {<<"~">>, <<"n","u","l","l">>} THEN Null ELSE BadValue)
           [] OTHER -> String(v)
    ELSE String(v)

\* the scalar arm with the tag looked at before the style
scalar_node_tag_first(v, style, tag) ==
    IF tag # None THEN tagged_node(v, tag[1])
    ELSE IF style # "Plain" THEN String(v)
    ELSE from_str(v)

\* the scalar arm without the style test: a quoted scalar is resolved like
\* a plain one
scalar_node_ignore_style(v, style, tag) ==
    IF tag # None THEN tagged_node(v, tag[1])
    ELSE from_str(v)

\* the node a Scalar event resolves to, before the anchor step
scalar_node(v, style, tag) ==
    IF style # "Plain" THEN String(v)
    ELSE IF tag # None THEN tagged_node(v, tag[1])
    ELSE from_str(v)

(***************************************************************************)
(* YamlLoader.  A loader value is the record of its four fields plus       *)
(* fault, which is set when an unwrap() or unreachable!() panics, and ins,  *)
(* the node (node.0) the last on_event call handed to insert_new_node.     *)
(***************************************************************************)
NewLoader ==
    [docs |-> <<>>, doc_stack |-> <<>>, key_stack |-> <<>>,
     anchor_map |-> <<>>, fault |-> FALSE, ins |-> None]

Entry(node, aid) == [node |-> node, aid |-> aid]

Panic(L) == [L EXCEPT !.fault = TRUE]

\* BTreeMap<String, YamlInput>: a function from the names defined so far
map_has(m, n) == n \in DOMAIN m
\* an insert that keeps the entry a name already has
map_insert_keep_first(m, n, y) ==
    [q \in DOMAIN m \cup {n} |-> IF q \in DOMAIN m THEN m[q] ELSE y]
map_insert(m, n, y) == [q \in DOMAIN m \cup {n} |-> IF q = n THEN y ELSE m[q]]
map_get(m, n) == IF map_has(m, n) THEN Some(m[n]) ELSE None

insert_new_node(L, e) ==
    LET L1 == IF e.aid # None
              THEN [L EXCEPT !.anchor_map = map_insert(@, e.aid[1], e.node),
                             !.ins = Some(e.node)]
              ELSE [L EXCEPT !.ins = Some(e.node)]
        top == Len(L.doc_stack)
        ktop == Len(L.key_stack)
    IN  IF L.doc_stack = <<>> THEN [L1 EXCEPT !.doc_stack = <<e>>]
        ELSE LET parent == L.doc_stack[top].node
             IN  CASE parent.t = "Array" ->
                        [L1 EXCEPT !.doc_stack[top].node = Array(Append(parent.a, e.node))]
                   [] parent.t = "Hash" ->
                        IF ktop = 0 THEN Panic(L1)
                        ELSE IF is_badvalue(L.key_stack[ktop])
                        THEN [L1 EXCEPT !.key_stack[ktop] = e.node]
                        ELSE [L1 EXCEPT
                                !.key_stack[ktop] = BadValue,
                                !.doc_stack[top].node =
                                    Hash(hash_insert(parent.h, L.key_stack[ktop], e.node))]
                   [] OTHER -> Panic(L1)

\* the anchor step shared by SequenceEnd, MappingEnd and Scalar
insert_anchored(L, node, aid) ==
    IF aid # None
    THEN insert_new_node(L, Entry(Anchored(aid[1], node), Some(aid[1])))
    ELSE insert_new_node(L, Entry(node, None))

\* DocumentEnd that also starts the next document with an empty Anchor Table
on_document_end_clearing(L) ==
    CASE Len(L.doc_stack) = 0 ->
           [L EXCEPT !.docs = Append(@, BadValue), !.anchor_map = <<>>]
      [] Len(L.doc_stack) = 1 ->
           [L EXCEPT !.docs = Append(@, L.doc_stack[1].node), !.doc_stack = <<>>,
                     !.anchor_map = <<>>]
      [] OTHER -> Panic(L)

\* DocumentEnd that keeps only the root of the document that ends
on_document_end_reset(L) ==
    CASE Len(L.doc_stack) = 0 -> [L EXCEPT !.docs = <<BadValue>>]
      [] Len(L.doc_stack) = 1 ->
           [L EXCEPT !.docs = <<L.doc_stack[1].node>>, !.doc_stack = <<>>]
      [] OTHER -> Panic(L)

\* DocumentEnd that puts the new root in front of the earlier ones
on_document_end_front(L) ==
    CASE Len(L.doc_stack) = 0 -> [L EXCEPT !.docs = <<BadValue>> \o @]
      [] Len(L.doc_stack) = 1 ->
           [L EXCEPT !.docs = <<L.doc_stack[1].node>> \o @, !.doc_stack = <<>>]
      [] OTHER -> Panic(L)

on_document_end(L) ==
    CASE Len(L.doc_stack) = 0 -> [L EXCEPT !.docs = Append(@, BadValue)]
      [] Len(L.doc_stack) = 1 ->
           [L EXCEPT !.docs = Append(@, L.doc_stack[1].node), !.doc_stack = <<>>]
      [] OTHER -> Panic(L)

on_sequence_start(L, aid) ==
    [L EXCEPT !.doc_stack = Append(@, Entry(Array(<<>>), aid))]

pop(s) == SubSeq(s, 1, Len(s) - 1)

on_sequence_end(L) ==
    IF L.doc_stack = <<>> THEN Panic(L)
    ELSE LET node == L.doc_stack[Len(L.doc_stack)]
         IN  insert_anchored([L EXCEPT !.doc_stack = pop(@)], node.node, node.aid)

\* a MappingStart that opens the mapping without a key slot
on_mapping_start_no_slot(L, aid) ==
    [L EXCEPT !.doc_stack = Append(@, Entry(Hash(<<>>), aid))]

on_mapping_start(L, aid) ==
    [L EXCEPT !.doc_stack = Append(@, Entry(Hash(<<>>), aid)),
              !.key_stack = Append(@, BadValue)]

\* a MappingEnd that leaves the closed mapping's key slot on the key stack
on_mapping_end_keep_slot(L) ==
    IF L.key_stack = <<>> \/ L.doc_stack = <<>> THEN Panic(L)
    ELSE LET node == L.doc_stack[Len(L.doc_stack)]
         IN  insert_anchored([L EXCEPT !.doc_stack = pop(@)], node.node, node.aid)

on_mapping_end(L) ==
    IF L.key_stack = <<>> \/ L.doc_stack = <<>> THEN Panic(L)
    ELSE LET node == L.doc_stack[Len(L.doc_stack)]
         IN  insert_anchored([L EXCEPT !.key_stack = pop(@), !.doc_stack = pop(@)],
                             node.node, node.aid)

on_scalar(L, ev) ==
    insert_anchored(L, scalar_node(ev.v, ev.style, ev.tag), ev.aid)

\* alias lookup that also resolves against the open container that carries
\* the anchor, handing out the partial node
alias_node_pending(L, id) ==
    LET pending == {i \in 1..Len(L.doc_stack) : L.doc_stack[i].aid = Some(id)}
    IN  Aliased(id, IF map_get(L.anchor_map, id) # None
                    THEN Some(map_get(L.anchor_map, id)[1])
                    ELSE IF pending # {}
                    THEN Some(L.doc_stack[CHOOSE i \in pending : TRUE].node)
                    ELSE None)

alias_node(L, id) ==
    Aliased(id, IF map_get(L.anchor_map, id) # None
                THEN Some(map_get(L.anchor_map, id)[1]) ELSE None)

on_alias(L, id) == insert_new_node(L, Entry(alias_node(L, id), None))

on_event(L0, ev) ==
    LET L == [L0 EXCEPT !.ins = None]
    IN  CASE ev.k = "DocumentStart" -> L
          [] ev.k = "DocumentEnd" -> on_document_end(L)
          [] ev.k = "SequenceStart" -> on_sequence_start(L, ev.aid)
          [] ev.k = "SequenceEnd" -> on_sequence_end(L)
          [] ev.k = "MappingStart" -> on_mapping_start(L, ev.aid)
          [] ev.k = "MappingEnd" -> on_mapping_end(L)
          [] ev.k = "Scalar" -> on_scalar(L, ev)
          [] ev.k = "Alias" -> on_alias(L, ev.id)
          [] OTHER -> L

(***************************************************************************)
(* The serializer (YamlEmitter) followed by the parser, as the events the  *)
(* parser reads back from the text written for an Output tree.  Neither is *)
(* part of yaml.rs; both follow the round-trip contract of the             *)
(* specification: scalars are written as their text, a string is quoted    *)
(* exactly when the plain resolution rules would read its text as          *)
(* something else, containers are written with their children in order.    *)
(***************************************************************************)
RECURSIVE DecimalDigits(_)
DecimalDigits(n) ==
    LET d == <<"0","1","2","3","4","5","6","7","8","9">>[(n % 10) + 1]
    IN  IF n < 10 THEN <<d>> ELSE Append(DecimalDigits(n \div 10), d)

\* the decimal text of an i64
to_text(i) == IF i < 0 THEN <<"-">> \o DecimalDigits(0 - i) ELSE DecimalDigits(i)

RECURSIVE emit(_)
\* the events of the children of a sequence, or of the keys and values of a
\* mapping, one after the other
RECURSIVE emit_all(_)
emit_all(zs) ==
    IF zs = <<>> THEN <<>> ELSE emit(zs[1]) \o emit_all(Tail(zs))

emit(z) ==
    CASE z.out = "Real" -> <<ScalarEvent(z.s, "Plain", None, None)>>
      [] z.out = "Integer" -> <<ScalarEvent(to_text(z.i), "Plain", None, None)>>
      [] z.out = "String" ->
           \* quoted exactly when the plain text would be read as something else
           <<ScalarEvent(z.s, IF from_str(z.s) # String(z.s) THEN "DoubleQuoted"
                              ELSE "Plain",
                         None, None)>>
      [] z.out = "Boolean" ->
           <<ScalarEvent(IF z.b THEN <<"t","r","u","e">> ELSE <<"f","a","l","s","e">>,
                         "Plain", None, None)>>
      [] z.out \in {"Null", "BadValue"} -> <<ScalarEvent(<<"~">>, "Plain", None, None)>>
      [] z.out = "Array" ->
           <<SequenceStartEvent(None)>> \o emit_all(z.a) \o <<[k |-> "SequenceEnd"]>>
      [] z.out = "Hash" ->
           <<MappingStartEvent(None)>>
             \o emit_all([j \in 1..(2 * Len(z.h)) |->
                            z.h[(j + 1) \div 2][IF j % 2 = 1 THEN 1 ELSE 2]])
             \o <<[k |-> "MappingEnd"]>>
      [] z.out = "Anchored" ->
           <<[emit(z.c)[1] EXCEPT !.aid = Some(z.n)]>> \o Tail(emit(z.c))
      [] z.out = "Alias" -> <<AliasEvent(z.n)>>

\* the loader after parser.load has handed it the events evs
RECURSIVE feed(_, _)
feed(L, evs) ==
    IF evs = <<>> THEN L ELSE feed(on_event(L, evs[1]), Tail(evs))

\* tests/test_round_trip.rs roundtrip: convert, dump as one document, load
roundtrip(y) ==
    feed(NewLoader,
         <<[k |-> "DocumentStart"]>> \o emit(into(y)) \o <<[k |-> "DocumentEnd"]>>).docs

(***************************************************************************)
(* Bounds and input alphabets.                                             *)
(***************************************************************************)
\* node-producing events (scalars, aliases, containers) per load
MaxNodes == 4
\* documents per load
MaxDocs == 2
\* elements of the sequence each of the side-by-side loads reads
MaxItems == 2
\* length of the enumerated scalar texts
MaxLen == 3
\* key/value pairs of the mapping in the key-order loads
MaxPairs == 3
\* constructor applications around a leaf in the accessor runs
MaxWrap == 3

Plain(v) == ScalarEvent(v, "Plain", None, None)

CoreTag(suffix) == Some(Tag("!!", suffix))

\* a scalar whose !!int tag does not fit its text
MismatchScalar == ScalarEvent(<<"x">>, "Plain", None, CoreTag("int"))

TreeScalars ==
    { Plain(<<"a">>), MismatchScalar,
      ScalarEvent(<<"1",".","5">>, "Plain", Some("D"), None) }

KeyScalars ==
    { Plain(<<"a">>), Plain(<<"b">>), Plain(<<"~">>), MismatchScalar }

Styles == {"Plain", "SingleQuoted", "DoubleQuoted", "Literal", "Folded"}

Tags ==
    { None, CoreTag("bool"), CoreTag("int"), CoreTag("float"), CoreTag("null"),
      CoreTag("str"), Some(Tag("!", "int")) }

Chars == {"0", "1", "x", "o", "+", "-", ".", "e"}

\* the texts of the repository's tests, and texts at the edges of the grammar
ExampleTexts ==
    { <<"1","2","3">>, <<"-","3","2","1">>, <<"1",".","2","3">>, <<"-","1","e","4">>,
      <<"~">>, <<"n","u","l","l">>, <<"t","r","u","e">>, <<"f","a","l","s","e">>,
      <<"s","t","r","i","n","g">>, <<"v","a","l">>, <<"1","0","0">>, <<"2">>,
      <<"0","x","F","F">>, <<"0","o","7","7">>, <<"+","1","2","3","4","5">>,
      <<"-",".","I","N","F">>, <<".","N","A","N">>, <<".","I","N","F">>,
      <<".","i","n","f">>, <<"N","a","N">>, <<"T","r","u","e">>, <<"0","o","8">>,
      <<".","I","n","f">>, <<"+",".","I","n","f">>, <<"+",".","I","N","F">>,
      <<"-",".","i","n","f">>, <<"-",".","I","n","f">>, <<".","n","a","n">>,
      <<".","i","N","F">>, <<"+",".","i","n","F">>, <<"-",".","i","N","f">>,
      <<".","N","a","N">>, <<"n","a","n">>,
      <<"9","2","2","3","3","7","2","0","3","6","8","5","4","7","7","5","8","0","8">>,
      <<"0","x","8","0","0","0","0","0","0","0","0","0","0","0","0","0","0","0">> }

Texts == UNION {[1..k -> Chars] : k \in 0..MaxLen} \cup ExampleTexts

AllScalars ==
    { ScalarEvent(v, style, None, tag) : v \in Texts, style \in Styles, tag \in Tags }

ScalarsOf(p) ==
    CASE p = "tree" -> TreeScalars
      [] p = "keys" -> KeyScalars
      [] p = "aliaskeys" ->
           { Plain(<<"a">>), ScalarEvent(<<"a">>, "Plain", Some("D"), None),
             ScalarEvent(<<"b">>, "Plain", Some("D"), None) }
      [] p = "scalar" -> AllScalars

SequenceAidsOf(p) == IF p = "tree" THEN {None} ELSE {}

MappingAidsOf(p) ==
    CASE p = "tree" -> {None, Some("D")}
      [] p \in {"keys", "aliaskeys"} -> {None}
      [] OTHER -> {}

AliasIdsOf(p) == IF p \in {"tree", "aliaskeys"} THEN {"D"} ELSE {}

NodeBudgetOf(p) ==
    CASE p = "tree" -> MaxNodes
      [] p \in {"keys", "aliaskeys"} -> 2 * MaxPairs + 1
      [] OTHER -> 1

DepthLimitOf(p) ==
    CASE p = "tree" -> MaxNodes
      [] p \in {"keys", "aliaskeys"} -> 1
      [] OTHER -> 0

DocBudgetOf(p) == IF p = "tree" THEN MaxDocs ELSE 1

(***************************************************************************)
(* State.                                                                  *)
(*   docs, doc_stack, key_stack, anchor_map: the YamlLoader fields         *)
(*   fault: a panic was raised in the loader                               *)
(*   pc, result: load_from_str's position and return value                 *)
(*   inDoc, open, root: the parser's position in the event stream: inside  *)
(*     a document, the open containers (kind, anchor, children completed   *)
(*     so far), and the document's root node once it is complete           *)
(*   nodes, ndocs: node events and documents emitted so far                *)
(*   last: the last event delivered, the node it inserted and, for an End  *)
(*     event, the children of the container it closed                      *)
(*   closed: anchor name -> the node most recently closed under that name, *)
(*     as popped (before the anchor step wraps it)                         *)
(*   shadow: a second loader fed the same events, except that a scalar     *)
(*     whose explicit tag does not fit its text is replaced by a quoted    *)
(*     scalar (an ordinary String leaf) with the text MarkerText           *)
(*   node, call: the YamlInput value a caller holds, and the last accessor *)
(*     or Index call made on it with its result                            *)
(*   profile: the input alphabet of this run                               *)
(*   loads: the load_from_str calls that run side by side, each with the   *)
(*     loader it owns, its position in its event stream, the events it has *)
(*     received and its return value                                       *)
(***************************************************************************)
VARIABLES docs, doc_stack, key_stack, anchor_map, fault, pc, result,
          inDoc, open, root, nodes, ndocs, last, closed, shadow,
          node, call, profile, loads

vars == <<docs, doc_stack, key_stack, anchor_map, fault, pc, result,
          inDoc, open, root, nodes, ndocs, last, closed, shadow,
          node, call, profile, loads>>

Self ==
    [docs |-> docs, doc_stack |-> doc_stack, key_stack |-> key_stack,
     anchor_map |-> anchor_map, fault |-> fault, ins |-> last.ins]

NoCall == [op |-> "none"]
\* no event was handed over yet
NoLast == [ev |-> [k |-> "None"], ins |-> None, kids |-> <<>>]

InitLoad(p) ==
    /\ profile = p
    /\ docs = NewLoader.docs
    /\ doc_stack = NewLoader.doc_stack
    /\ key_stack = NewLoader.key_stack
    /\ anchor_map = NewLoader.anchor_map
    /\ fault = NewLoader.fault
    /\ pc = "loading"
    /\ result = None
    /\ inDoc = FALSE
    /\ open = <<>>
    /\ root = None
    /\ nodes = 0
    /\ ndocs = 0
    /\ last = NoLast
    /\ closed = <<>>
    /\ shadow = NewLoader
    /\ node = BadValue
    /\ call = NoCall
    /\ loads = <<>>

Init == InitLoad("tree")

MarkerText == <<"?">>

Mismatched(ev) ==
    /\ ev.k = "Scalar"
    /\ scalar_node(ev.v, ev.style, ev.tag) = BadValue

OrdinaryLeaf(ev) ==
    IF Mismatched(ev)
    THEN ScalarEvent(MarkerText, "DoubleQuoted", ev.aid, None)
    ELSE ev

\* the node an anchored closing event closes, as popped
ClosedBy(ev) ==
    CASE ev.k = "Scalar" -> scalar_node(ev.v, ev.style, ev.tag)
      [] ev.k \in {"SequenceEnd", "MappingEnd"} -> doc_stack[Len(doc_stack)].node

ClosingAid(ev) ==
    CASE ev.k = "Scalar" -> ev.aid
      [] ev.k \in {"SequenceEnd", "MappingEnd"} /\ doc_stack # <<>> ->
           doc_stack[Len(doc_stack)].aid
      [] OTHER -> None

\* parser.load hands ev to the receiver: one on_event call
Deliver(ev) ==
    LET r == on_event(Self, ev)
    IN  /\ docs' = r.docs
        /\ doc_stack' = r.doc_stack
        /\ key_stack' = r.key_stack
        /\ anchor_map' = r.anchor_map
        /\ fault' = r.fault
        /\ last' = [ev |-> ev, ins |-> r.ins,
                    kids |-> IF ev.k \in {"SequenceEnd", "MappingEnd"}
                             THEN open[Len(open)].kids ELSE <<>>]
        /\ closed' = IF ClosingAid(ev) # None
                     THEN [q \in DOMAIN closed \cup {ClosingAid(ev)[1]} |->
                             IF q = ClosingAid(ev)[1] THEN ClosedBy(ev) ELSE closed[q]]
                     ELSE closed
        /\ shadow' = on_event(shadow, OrdinaryLeaf(ev))

Loading == pc = "loading" /\ ~fault

\* a node may start here: inside a document, below an open container or as
\* the root the document does not have yet
NodeAllowed ==
    /\ Loading /\ inDoc
    /\ open # <<>> \/ root = None
    /\ nodes < NodeBudgetOf(profile)

ContainerAllowed == NodeAllowed /\ Len(open) < DepthLimitOf(profile)

OpenEntry(kind, aid) == [kind |-> kind, aid |-> aid, kids |-> <<>>]

\* a node was completed at nesting level o: it is a child of the innermost
\* open container, or the root of the document
Completed(o) ==
    /\ open' = IF o = <<>> THEN o
               ELSE [o EXCEPT ![Len(o)].kids = @ \o last'.ins]
    /\ root' = IF o = <<>> THEN last'.ins ELSE root

DocumentStart ==
    /\ Loading /\ ~inDoc
    /\ ndocs < DocBudgetOf(profile)
    /\ Deliver([k |-> "DocumentStart"])
    /\ inDoc' = TRUE
    /\ ndocs' = ndocs + 1
    /\ root' = None
    /\ UNCHANGED <<open, nodes, pc, result, node, call, profile, loads>>

DocumentEnd ==
    /\ Loading /\ inDoc /\ open = <<>>
    /\ Deliver([k |-> "DocumentEnd"])
    /\ inDoc' = FALSE
    /\ UNCHANGED <<open, root, nodes, ndocs, pc, result, node, call, profile, loads>>

SequenceStart ==
    /\ ContainerAllowed
    /\ \E aid \in SequenceAidsOf(profile) :
          /\ Deliver(SequenceStartEvent(aid))
          /\ open' = Append(open, OpenEntry("seq", aid))
    /\ nodes' = nodes + 1
    /\ UNCHANGED <<inDoc, root, ndocs, pc, result, node, call, profile, loads>>

SequenceEnd ==
    /\ Loading /\ open # <<>> /\ open[Len(open)].kind = "seq"
    /\ Deliver([k |-> "SequenceEnd"])
    /\ Completed(pop(open))
    /\ UNCHANGED <<inDoc, nodes, ndocs, pc, result, node, call, profile, loads>>

MappingStart ==
    /\ ContainerAllowed
    /\ \E aid \in MappingAidsOf(profile) :
          /\ Deliver(MappingStartEvent(aid))
          /\ open' = Append(open, OpenEntry("map", aid))
    /\ nodes' = nodes + 1
    /\ UNCHANGED <<inDoc, root, ndocs, pc, result, node, call, profile, loads>>

\* the parser closes a mapping only after a whole number of key/value pairs
MappingEnd ==
    /\ Loading /\ open # <<>> /\ open[Len(open)].kind = "map"
    /\ Len(open[Len(open)].kids) % 2 = 0
    /\ Deliver([k |-> "MappingEnd"])
    /\ Completed(pop(open))
    /\ UNCHANGED <<inDoc, nodes, ndocs, pc, result, node, call, profile, loads>>

Scalar ==
    /\ NodeAllowed
    /\ \E ev \in ScalarsOf(profile) : Deliver(ev)
    /\ Completed(open)
    /\ nodes' = nodes + 1
    /\ UNCHANGED <<inDoc, ndocs, pc, result, node, call, profile, loads>>

Alias ==
    /\ NodeAllowed
    /\ \E id \in AliasIdsOf(profile) : Deliver(AliasEvent(id))
    /\ Completed(open)
    /\ nodes' = nodes + 1
    /\ UNCHANGED <<inDoc, ndocs, pc, result, node, call, profile, loads>>

\* the loader value goes out of scope when load_from_str returns
Dropped ==
    /\ docs' = NewLoader.docs
    /\ doc_stack' = NewLoader.doc_stack
    /\ key_stack' = NewLoader.key_stack
    /\ anchor_map' = NewLoader.anchor_map
    /\ fault' = fault
    /\ last' = NoLast
    /\ closed' = <<>>
    /\ shadow' = NewLoader
    /\ open' = <<>>
    /\ root' = None
    /\ inDoc' = FALSE

\* parser.load returned Ok(()): the stream ended after a whole document
LoadOk ==
    /\ Loading /\ ~inDoc
    /\ pc' = "ok"
    /\ result' = Some(docs)
    /\ Dropped
    /\ UNCHANGED <<nodes, ndocs, node, call, profile, loads>>

\* a load that hands back the roots completed before the error
LoadErr_partial ==
    /\ Loading
    /\ pc' = "err"
    /\ result' = Some(docs)
    /\ Dropped
    /\ UNCHANGED <<nodes, ndocs, node, call, profile, loads>>

\* parser.load returned Err(ScanError): the ? operator returns it
LoadErr ==
    /\ Loading
    /\ pc' = "err"
    /\ result' = None
    /\ Dropped
    /\ UNCHANGED <<nodes, ndocs, node, call, profile, loads>>

Next ==
    \/ DocumentStart
    \/ DocumentEnd
    \/ SequenceStart
    \/ SequenceEnd
    \/ MappingStart
    \/ MappingEnd
    \/ Scalar
    \/ Alias
    \/ LoadOk
    \/ LoadErr

Spec == Init /\ [][Next]_vars

(***************************************************************************)
(* Loads of one scalar document over the enumerated texts, styles and tags.*)
(***************************************************************************)
NextScalar ==
    \/ DocumentStart
    \/ Scalar
    \/ DocumentEnd
    \/ LoadOk

SpecScalar == InitLoad("scalar") /\ [][NextScalar]_vars

(***************************************************************************)
(* Loads of one document whose root is a mapping of scalars.               *)
(***************************************************************************)
NextKeys ==
    \/ DocumentStart
    \/ MappingStart
    \/ Scalar
    \/ MappingEnd
    \/ DocumentEnd
    \/ LoadOk

SpecKeys == InitLoad("keys") /\ [][NextKeys]_vars

(***************************************************************************)
(* Several load_from_str calls in progress at once, their events arriving  *)
(* in any interleaving.  Each call reads one document, a sequence of       *)
(* anchored scalars and aliases that all use the name D.                   *)
(***************************************************************************)
Loads == {"A", "B"}

ItemEvents ==
    { Plain(<<"a">>), ScalarEvent(<<"a">>, "Plain", Some("D"), None), AliasEvent("D") }

IdleLoad == [at |-> "idle", L |-> NewLoader, evs |-> <<>>, out |-> None]

InitLoads ==
    /\ profile = "loads"
    /\ docs = NewLoader.docs
    /\ doc_stack = NewLoader.doc_stack
    /\ key_stack = NewLoader.key_stack
    /\ anchor_map = NewLoader.anchor_map
    /\ fault = NewLoader.fault
    /\ pc = "idle"
    /\ result = None
    /\ inDoc = FALSE
    /\ open = <<>>
    /\ root = None
    /\ nodes = 0
    /\ ndocs = 0
    /\ last = NoLast
    /\ closed = <<>>
    /\ shadow = NewLoader
    /\ node = BadValue
    /\ call = NoCall
    /\ loads = [i \in Loads |-> IdleLoad]

OnlyLoads ==
    UNCHANGED <<docs, doc_stack, key_stack, anchor_map, fault, pc, result,
                inDoc, open, root, nodes, ndocs, last, closed, shadow,
                node, call, profile>>

\* the events the parser of a load can emit next, and where that leaves it
NextEvents(l) ==
    CASE l.at = "start" -> {<<[k |-> "DocumentStart"], "doc">>}
      [] l.at = "doc" -> {<<SequenceStartEvent(None), "seq">>}
      [] l.at = "seq" ->
           {<<[k |-> "SequenceEnd"], "closed">>}
             \cup (IF Len(l.evs) < MaxItems + 2
                   THEN {<<ev, "seq">> : ev \in ItemEvents} ELSE {})
      [] l.at = "closed" -> {<<[k |-> "DocumentEnd"], "end">>}
      [] OTHER -> {}

\* a loader table kept in one place for all loads: an anchor recorded by one
\* load is seen by the others
receive_shared(ls, i, ev, at) ==
    LET r == on_event(ls[i].L, ev)
    IN  [j \in DOMAIN ls |->
           IF j = i
           THEN [ls[j] EXCEPT !.L = r, !.evs = Append(@, ev), !.at = at]
           ELSE [ls[j] EXCEPT !.L.anchor_map = r.anchor_map]]

\* parser.load of load i hands ev to the loader that load owns
receive(ls, i, ev, at) ==
    [ls EXCEPT ![i].L = on_event(@, ev), ![i].evs = Append(@, ev), ![i].at = at]

\* load_from_str is entered: the loader is constructed
LoadBegin ==
    /\ \E i \in Loads :
          /\ loads[i].at = "idle"
          /\ loads' = [loads EXCEPT ![i].at = "start", ![i].L = NewLoader]
    /\ OnlyLoads

LoadEvent ==
    /\ \E i \in Loads :
          \E n \in NextEvents(loads[i]) :
             loads' = receive(loads, i, n[1], n[2])
    /\ OnlyLoads

\* parser.load returned Ok(()): Ok(loader.docs)
LoadReturn ==
    /\ \E i \in Loads :
          /\ loads[i].at = "end"
          /\ loads' = [loads EXCEPT ![i].at = "ok", ![i].out = Some(loads[i].L.docs)]
    /\ OnlyLoads

NextLoads ==
    \/ LoadBegin
    \/ LoadEvent
    \/ LoadReturn

SpecLoads == InitLoads /\ [][NextLoads]_vars

(***************************************************************************)
(* A caller that builds YamlInput values with the enum's constructors and  *)
(* applies the typed accessors, the predicates and the Index operators.    *)
(***************************************************************************)
LeafNodes ==
    { Null, BadValue, Boolean(TRUE), Integer(0), Integer(4), String(<<"a">>),
      Real(<<"1",".","5">>), Aliased("D", None) }

KeyNodes == { String(<<"a">>), Integer(0), Integer(-1) }

IndexKeys == { <<"a">>, <<"b">> }

IndexRange == { USize(n) : n \in 0..2 } \cup { USizeTop(1) }

AccessorNames ==
    { "as_bool", "as_i64", "as_str", "as_hash", "as_vec", "as_f64",
      "into_bool", "into_i64", "into_string", "into_hash", "into_vec", "into_f64" }

PredicateNames == { "is_null", "is_array", "is_badvalue" }

Apply(op, y) ==
    CASE op = "as_bool" -> as_bool(y)
      [] op = "as_i64" -> as_i64(y)
      [] op = "as_str" -> as_str(y)
      [] op = "as_hash" -> as_hash(y)
      [] op = "as_vec" -> as_vec(y)
      [] op = "as_f64" -> as_f64(y)
      [] op = "into_bool" -> into_bool(y)
      [] op = "into_i64" -> into_i64(y)
      [] op = "into_string" -> into_string(y)
      [] op = "into_hash" -> into_hash(y)
      [] op = "into_vec" -> into_vec(y)
      [] op = "into_f64" -> into_f64(y)
      [] op = "is_null" -> is_null(y)
      [] op = "is_array" -> is_array(y)
      [] op = "is_badvalue" -> is_badvalue(y)

InitAccess ==
    /\ profile = "access"
    /\ docs = NewLoader.docs
    /\ doc_stack = NewLoader.doc_stack
    /\ key_stack = NewLoader.key_stack
    /\ anchor_map = NewLoader.anchor_map
    /\ fault = NewLoader.fault
    /\ pc = "idle"
    /\ result = None
    /\ inDoc = FALSE
    /\ open = <<>>
    /\ root = None
    /\ nodes = 0
    /\ ndocs = 0
    /\ last = NoLast
    /\ closed = <<>>
    /\ shadow = NewLoader
    /\ node \in LeafNodes
    /\ call = NoCall
    /\ loads = <<>>

LoaderIdle ==
    UNCHANGED <<docs, doc_stack, key_stack, anchor_map, fault, pc, result,
                inDoc, open, root, ndocs, last, closed, shadow, profile, loads>>

Construct(y) ==
    /\ nodes < MaxWrap
    /\ node' = y
    /\ nodes' = nodes + 1
    /\ call' = NoCall
    /\ LoaderIdle

MakeAnchored == Construct(Anchored("D", node))

MakeAliased == Construct(Aliased("D", Some(node)))

MakeArray == \E y \in {Array(<<node>>), Array(<<Null, node>>)} : Construct(y)

MakeHash == \E k \in KeyNodes : Construct(Hash(<< <<k, node>> >>))

CallAccessor ==
    /\ \E op \in AccessorNames \cup PredicateNames :
          call' = [op |-> op, arg |-> node, out |-> Apply(op, node)]
    /\ UNCHANGED <<node, nodes>>
    /\ LoaderIdle

\* node[idx] with a &str index: the caller goes on with the result
IndexStr ==
    /\ \E idx \in IndexKeys :
          /\ node' = index_str(node, idx)
          /\ call' = [op |-> "index_str", arg |-> node, idx |-> idx,
                      out |-> index_str(node, idx)]
    /\ UNCHANGED nodes
    /\ LoaderIdle

\* node[idx] with a usize index
IndexUsize ==
    /\ \E idx \in IndexRange :
          /\ node' = index_usize(node, idx)
          /\ call' = [op |-> "index_usize", arg |-> node, idx |-> idx,
                      out |-> index_usize(node, idx)]
    /\ UNCHANGED nodes
    /\ LoaderIdle

NextAccess ==
    \/ MakeAnchored
    \/ MakeAliased
    \/ MakeArray
    \/ MakeHash
    \/ CallAccessor
    \/ IndexStr
    \/ IndexUsize

SpecAccess == InitAccess /\ [][NextAccess]_vars

(***************************************************************************)
(* A caller that builds YamlInput values and converts them to YamlOutput.  *)
(***************************************************************************)
\* let output: YamlOutput = node.into()
IntoOutput ==
    /\ call' = [op |-> "into", arg |-> node, out |-> into(node)]
    /\ UNCHANGED <<node, nodes>>
    /\ LoaderIdle

NextConvert ==
    \/ MakeAnchored
    \/ MakeAliased
    \/ MakeArray
    \/ MakeHash
    \/ IntoOutput

SpecConvert == InitAccess /\ [][NextConvert]_vars

(***************************************************************************)
(* Loads of one document whose root is a mapping of scalars, anchored      *)
(* scalars and aliases, all of the name D, and the conversion of the       *)
(* loaded root to the Output model.                                        *)
(***************************************************************************)
NextAliasKeys ==
    \/ NextKeys
    \/ Alias
    \* the caller converts the root the load returned
    \/ /\ pc = "ok" /\ result # None /\ result[1] # <<>>
       /\ call' = [op |-> "into", arg |-> result[1][1], out |-> into(result[1][1])]
       /\ UNCHANGED <<node, nodes>>
       /\ LoaderIdle

SpecAliasKeys == InitLoad("aliaskeys") /\ [][NextAliasKeys]_vars

(***************************************************************************)
(* A caller that builds trees without wrappers and sends them through the  *)
(* round trip of tests/test_round_trip.rs.                                 *)
(***************************************************************************)
RoundTripLeaves ==
    { Null, BadValue, Boolean(TRUE), Integer(0), Integer(0 - 12), Array(<<>>), Hash(<<>>),
      String(<<"a">>), String(<<>>), String(<<"1","2","3","4">>),
      String(<<"0","1","2","3","4">>), String(<<" ","0","1","2","3","4">>),
      String(<<"0","x","1","2","3","4">>), String(<<"0","o","1","7">>),
      String(<<"1",".","5">>), String(<<"t","r","u","e">>), String(<<"~">>),
      Real(<<"1",".","5">>), Real(<<"a">>), Real(<<"1","2">>) }

InitRoundTrip ==
    /\ profile = "roundtrip"
    /\ docs = NewLoader.docs
    /\ doc_stack = NewLoader.doc_stack
    /\ key_stack = NewLoader.key_stack
    /\ anchor_map = NewLoader.anchor_map
    /\ fault = NewLoader.fault
    /\ pc = "idle"
    /\ result = None
    /\ inDoc = FALSE
    /\ open = <<>>
    /\ root = None
    /\ nodes = 0
    /\ ndocs = 0
    /\ last = NoLast
    /\ closed = <<>>
    /\ shadow = NewLoader
    /\ node \in RoundTripLeaves
    /\ call = NoCall
    /\ loads = <<>>

RoundTrip ==
    /\ call' = [op |-> "roundtrip", arg |-> node, out |-> roundtrip(node)]
    /\ UNCHANGED <<node, nodes>>
    /\ LoaderIdle

NextRoundTrip ==
    \/ MakeArray
    \/ MakeHash
    \/ Construct(Hash(<< <<node, Null>> >>))
    \/ RoundTrip

SpecRoundTrip == InitRoundTrip /\ [][NextRoundTrip]_vars

(***************************************************************************)
(* Properties.                                                             *)
(***************************************************************************)
Min(a, b) == IF a < b THEN a ELSE b

\* a node without its Anchored wrapper
Content(y) == IF y.t = "Anchored" THEN y.c ELSE y

\* a node without any Anchored or resolved Aliased wrapper around it
RECURSIVE Unwrap(_)
Unwrap(y) ==
    CASE y.t = "Anchored" -> Unwrap(y.c)
      [] y.t = "Aliased" /\ y.o # None -> Unwrap(y.o[1])
      [] OTHER -> y

AliasProcessed == last.ev.k = "Alias" /\ last.ins # None

\* C1: an Alias(n) event processed after a node anchored n has closed inserts
\* Aliased(n, Some(payload)), and every typed accessor and both index
\* operators answer on that alias exactly as on the anchored node's content.
C1_AliasAnswersAsAnchor ==
    (AliasProcessed /\ map_has(closed, last.ev.id)) =>
        LET y == last.ins[1]
            c == closed[last.ev.id]
        IN  /\ y.t = "Aliased" /\ y.n = last.ev.id /\ y.o # None
            /\ \A op \in AccessorNames : Apply(op, y) = Apply(op, c)
            /\ \A idx \in IndexKeys : index_str(y, idx) = index_str(c, idx)
            /\ \A idx \in IndexRange : index_usize(y, idx) = index_usize(c, idx)

\* b is a with an unresolved alias resolved in place at some position that
\* the two nodes share
RECURSIVE Patched(_, _)
Patched(a, b) ==
    CASE a.t = "Aliased" /\ b.t = "Aliased" ->
           /\ a.n = b.n
           /\ \/ a.o = None /\ b.o # None
              \/ a.o # None /\ b.o # None /\ Patched(a.o[1], b.o[1])
      [] a.t = "Anchored" /\ b.t = "Anchored" -> Patched(a.c, b.c)
      [] a.t = "Array" /\ b.t = "Array" ->
           \E j \in 1..Min(Len(a.a), Len(b.a)) : Patched(a.a[j], b.a[j])
      [] a.t = "Hash" /\ b.t = "Hash" ->
           \E j \in 1..Min(Len(a.h), Len(b.h)) :
              Patched(a.h[j][1], b.h[j][1]) \/ Patched(a.h[j][2], b.h[j][2])
      [] OTHER -> FALSE

UnresolvedAtAlias ==
    (AliasProcessed /\ ~map_has(closed, last.ev.id)) =>
        /\ last.ins = Some(Aliased(last.ev.id, None))
        /\ ~fault

\* no step resolves an alias of a node that is already in the tree, and a
\* closing container is inserted exactly as it was popped
NoPatchStep ==
    /\ \A i \in 1..Min(Len(docs), Len(docs')) : ~Patched(docs[i], docs'[i])
    /\ \A i \in 1..Min(Len(doc_stack), Len(doc_stack')) :
          ~Patched(doc_stack[i].node, doc_stack'[i].node)
    /\ \A i \in 1..Min(Len(key_stack), Len(key_stack')) :
          ~Patched(key_stack[i], key_stack'[i])
    /\ last'.ev.k \in {"SequenceEnd", "MappingEnd"} =>
          /\ last'.ins # None
          /\ Content(last'.ins[1]) = doc_stack[Len(doc_stack)].node
    /\ (last'.ev.k = "DocumentEnd" /\ doc_stack # <<>>) =>
          docs'[Len(docs')] = doc_stack[1].node
    /\ pc' = "ok" => result' = Some(docs)

\* C2: an Alias(n) event processed when no node anchored n has closed yet,
\* also inside the open container that carries anchor n, inserts
\* Aliased(n, None) without a fault, and no later step patches a node.
C2_UnresolvedAliasStays == [][UnresolvedAtAlias' /\ NoPatchStep]_vars

C2_Witness ==
    /\ map_has(anchor_map, "D")
    /\ \E i \in 1..Len(docs) :
          docs[i] = Anchored("D", Hash(<< <<String(<<"a">>), Aliased("D", None)>> >>))

PlainUntagged(ev) == ev.k = "Scalar" /\ ev.style = "Plain" /\ ev.tag = None

HexLiteral(v) ==
    /\ strip_prefix(v, <<"0","x">>) # None
    /\ from_str_radix(strip_prefix(v, <<"0","x">>)[1], 16) # None

OctLiteral(v) ==
    /\ strip_prefix(v, <<"0","o">>) # None
    /\ from_str_radix(strip_prefix(v, <<"0","o">>)[1], 8) # None

PlusLiteral(v) ==
    /\ strip_prefix(v, <<"+">>) # None
    /\ parse_i64(strip_prefix(v, <<"+">>)[1]) # None

NullText(v) == v \in {<<"~">>, <<"n","u","l","l">>}

BoolText(v) == v \in {<<"t","r","u","e">>, <<"f","a","l","s","e">>}

DecimalI64(v) == parse_i64(v) # None

FloatGrammar(v) == parse_f64(v) # None

Resolves(v, y) == last.ev.v = v => last.ins = Some(y)

\* C3: a plain untagged scalar is resolved by the first matching rule of:
\* 0x hex Integer, 0o octal Integer, + signed Integer, ~/null Null,
\* true/false Boolean, base-10 i64 Integer, float grammar Real(text),
\* otherwise String(text).
C3_PlainResolution ==
    PlainUntagged(last.ev) =>
        LET v == last.ev.v
            y == last.ins[1]
            r1 == HexLiteral(v)
            r2 == ~r1 /\ OctLiteral(v)
            r3 == ~r1 /\ ~r2 /\ PlusLiteral(v)
            r4 == ~r1 /\ ~r2 /\ ~r3 /\ NullText(v)
            r5 == ~r1 /\ ~r2 /\ ~r3 /\ ~r4 /\ BoolText(v)
            r6 == ~r1 /\ ~r2 /\ ~r3 /\ ~r4 /\ ~r5 /\ DecimalI64(v)
            r7 == ~r1 /\ ~r2 /\ ~r3 /\ ~r4 /\ ~r5 /\ ~r6 /\ FloatGrammar(v)
            r8 == ~r1 /\ ~r2 /\ ~r3 /\ ~r4 /\ ~r5 /\ ~r6 /\ ~r7
        IN  /\ last.ins # None
            /\ r1 => y = Integer(from_str_radix(SubSeq(v, 3, Len(v)), 16)[1])
            /\ r2 => y = Integer(from_str_radix(SubSeq(v, 3, Len(v)), 8)[1])
            /\ r3 => y = Integer(parse_i64(Tail(v))[1])
            /\ r4 => y = Null
            /\ r5 => y = Boolean(v = <<"t","r","u","e">>)
            /\ r6 => y = Integer(parse_i64(v)[1])
            /\ r7 => y = Real(v)
            /\ r8 => y = String(v)
            /\ Resolves(<<"1","2","3">>, Integer(123))
            /\ Resolves(<<"-","3","2","1">>, Integer(-321))
            /\ Resolves(<<"1",".","2","3">>, Real(<<"1",".","2","3">>))
            /\ Resolves(<<"0","x","F","F">>, Integer(255))
            /\ Resolves(<<"0","o","7","7">>, Integer(63))
            /\ Resolves(<<"+","1","2","3","4","5">>, Integer(12345))

C3_Witness ==
    /\ PlainUntagged(last.ev)
    /\ last.ev.v = <<"0","x","F","F">>
    /\ last.ins = Some(Integer(255))

CoreTagged(ev, suffix) ==
    /\ ev.k = "Scalar" /\ ev.style = "Plain"
    /\ ev.tag = CoreTag(suffix)

\* C4: a plain scalar with an explicit !!bool, !!int, !!float or !!null tag
\* resolves to the tagged type when its text fits and to BadValue when it
\* does not.
C4_TagMismatchIsBadValue ==
    LET v == last.ev.v
        y == last.ins
    IN  /\ CoreTagged(last.ev, "bool") =>
              y = Some(IF BoolText(v) THEN Boolean(v = <<"t","r","u","e">>) ELSE BadValue)
        /\ CoreTagged(last.ev, "int") =>
              y = Some(IF DecimalI64(v) THEN Integer(parse_i64(v)[1]) ELSE BadValue)
        /\ CoreTagged(last.ev, "float") =>
              y = Some(IF FloatGrammar(v) THEN Real(v) ELSE BadValue)
        /\ CoreTagged(last.ev, "null") =>
              y = Some(IF NullText(v) THEN Null ELSE BadValue)
        /\ (CoreTagged(last.ev, "int") /\ v = <<"s","t","r","i","n","g">>) => y = Some(BadValue)
        /\ (CoreTagged(last.ev, "bool") /\ v = <<"n","u","l","l">>) => y = Some(BadValue)
        /\ (CoreTagged(last.ev, "null") /\ v = <<"v","a","l">>) => y = Some(BadValue)
        /\ (CoreTagged(last.ev, "int") /\ v = <<"1","0","0">>) => y = Some(Integer(100))

C4_Witness ==
    /\ CoreTagged(last.ev, "int")
    /\ last.ev.v = <<"s","t","r","i","n","g">>
    /\ last.ins = Some(BadValue)
    /\ doc_stack = <<Entry(BadValue, None)>>

\* C5: a Scalar event of any non-plain style resolves to String(text),
\* whatever its text and its tag.
C5_QuotedIsString ==
    (last.ev.k = "Scalar" /\ last.ev.style # "Plain") =>
        last.ins = Some(String(last.ev.v))

C5_Witness ==
    /\ last.ev.k = "Scalar"
    /\ last.ev.style = "DoubleQuoted"
    /\ last.ev.tag = CoreTag("int")
    /\ last.ev.v = <<"0">>
    /\ last.ins = Some(String(<<"0">>))

\* C6: every typed accessor and every predicate applied to Anchored(n, c) or
\* to Aliased(n, Some(c)) returns what it returns applied to c.
C6_WrappersTransparent ==
    (call.op \in AccessorNames \cup PredicateNames) =>
        /\ call.arg.t = "Anchored" => call.out = Apply(call.op, call.arg.c)
        /\ (call.arg.t = "Aliased" /\ call.arg.o # None) =>
              call.out = Apply(call.op, call.arg.o[1])

\* the tree y with every leaf String(MarkerText) turned into BadValue
RECURSIVE Poison(_)
Poison(y) ==
    CASE y = String(MarkerText) -> BadValue
      [] y.t = "Array" -> Array([j \in 1..Len(y.a) |-> Poison(y.a[j])])
      [] y.t = "Hash" ->
           Hash([j \in 1..Len(y.h) |-> <<Poison(y.h[j][1]), Poison(y.h[j][2])>>])
      [] y.t = "Anchored" -> Anchored(y.n, Poison(y.c))
      [] y.t = "Aliased" /\ y.o # None -> Aliased(y.n, Some(Poison(y.o[1])))
      [] OTHER -> y

\* C7: a scalar whose explicit tag does not fit its text becomes BadValue at
\* its own position only: every completed document is the document the same
\* events build with an ordinary leaf at that position, with that leaf
\* turned into BadValue.
C7_MismatchIsolated ==
    /\ ~fault
    /\ docs = [i \in 1..Len(shadow.docs) |-> Poison(shadow.docs[i])]

HashHolds(h, k, y) == \E j \in 1..Len(h) : h[j][1] = k /\ h[j][2] = y

\* C8: x[string key] is BadValue unless x unwraps to a Hash holding that
\* String key, x[integer idx] is BadValue unless x unwraps to an Array with
\* idx in range or to a Hash holding the key Integer(idx); indexing BadValue
\* yields BadValue.  An index at the top of the usize range is no position
\* of an Array and no i64, so no key Integer(idx) exists for it.
C8_IndexingIsSafe ==
    LET x == Unwrap(call.arg)
    IN  /\ call.op = "index_str" =>
              \/ call.out = BadValue
              \/ x.t = "Hash" /\ HashHolds(x.h, String(call.idx), call.out)
        /\ call.op = "index_usize" =>
              \/ call.out = BadValue
              \/ /\ x.t = "Array" /\ ~call.idx.top
                 /\ call.idx.n < Len(x.a) /\ call.out = x.a[call.idx.n + 1]
              \/ /\ x.t = "Hash" /\ ~call.idx.top
                 /\ HashHolds(x.h, Integer(call.idx.n), call.out)
        /\ (call.op \in {"index_str", "index_usize"} /\ call.arg = BadValue) =>
              call.out = BadValue

HashKeys(h) == [j \in 1..Len(h) |-> h[j][1]]

RECURSIVE IsSubseq(_, _)
IsSubseq(s, t) ==
    IF s = <<>> THEN TRUE
    ELSE IF t = <<>> THEN FALSE
    ELSE IF s[1] = t[1] THEN IsSubseq(Tail(s), Tail(t))
    ELSE IsSubseq(s, Tail(t))

SuppliedKeys(kids) == [j \in 1..(Len(kids) \div 2) |-> kids[2 * j - 1]]

SuppliedPairs(kids) == [j \in 1..(Len(kids) \div 2) |-> <<kids[2 * j - 1], kids[2 * j]>>]

Distinct(s) == \A i, j \in 1..Len(s) : s[i] = s[j] => i = j

RootsStep ==
    /\ last'.ev.k = "DocumentEnd" =>
          /\ docs' = Append(docs, IF root = None THEN BadValue ELSE root[1])
          /\ doc_stack = <<>> => docs' = Append(docs, BadValue)
    /\ (pc' = "loading" /\ last'.ev.k # "DocumentEnd") => docs' = docs
    /\ pc' = "ok" => result' = Some(docs) /\ Len(docs) = ndocs

\* C10: a successful load of k DocumentStart/DocumentEnd pairs returns k
\* roots, the i-th being the root node of the i-th document, and a
\* DocumentEnd that finds the value-stack empty contributes BadValue.
C10_OneRootPerDocument == [][RootsStep]_vars

C10_Witness ==
    /\ pc = "ok"
    /\ ndocs = 2
    /\ nodes = 1
    /\ result = Some(<<String(<<"a">>), BadValue>>)
\* C11: a load in which the event source reports an error returns the error
\* alone, also when earlier documents of the stream were completed and
\* appended: none of their roots is returned.
C11_AllOrNothing ==
    /\ pc = "err" => result = None
    /\ pc = "ok" => result # None

C11_Witness ==
    /\ pc = "err"
    /\ ndocs = 2
    /\ nodes > 0
    /\ result = None
\* C12: the conversion to the Output model yields a value for every node:
\* Aliased(n, payload) becomes the bare Alias(n) with or without a payload,
\* Anchored(n, c) becomes Anchored(n, convert(c)), and every other variant
\* becomes the Output variant of the same name with the same scalar payload
\* (containers with their children converted).
C12_ConversionTotal ==
    call.op = "into" =>
        LET y == call.arg
            z == call.out
        IN  /\ y.t = "Aliased" => z = OutAlias(y.n)
            /\ y.t = "Anchored" => z = OutAnchored(y.n, into(y.c))
            /\ y.t \notin {"Aliased", "Anchored"} => z.out = y.t
            /\ y.t \in {"Real", "String"} => z.s = y.s
            /\ y.t = "Integer" => z.i = y.i
            /\ y.t = "Boolean" => z.b = y.b
            /\ y.t \in {"Null", "BadValue"} => DOMAIN z = {"out"}
            /\ y.t = "Array" =>
                  /\ Len(z.a) = Len(y.a)
                  /\ \A j \in 1..Len(y.a) : z.a[j] = into(y.a[j])
            /\ y.t = "Hash" =>
                  /\ \A j \in 1..Len(y.h) :
                        \E i \in 1..Len(z.h) : z.h[i][1] = into(y.h[j][1])
                  /\ \A i \in 1..Len(z.h) :
                        \E j \in 1..Len(y.h) :
                           z.h[i] = <<into(y.h[j][1]), into(y.h[j][2])>>

C12_Witness ==
    /\ call.op = "into"
    /\ call.arg = Anchored("D", Aliased("D", Some(String(<<"a">>))))
    /\ call.out = OutAnchored("D", OutAlias("D"))
\* C13: applied to an unresolved alias Aliased(n, None), every typed
\* accessor returns no value and every predicate returns false.
C13_UnresolvedAnswersNothing ==
    (call.op \in AccessorNames \cup PredicateNames
       /\ call.arg.t = "Aliased" /\ call.arg.o = None) =>
        IF call.op \in PredicateNames THEN call.out = FALSE ELSE call.out = None

C13_Witness ==
    /\ call.op = "into_string"
    /\ call.arg = Aliased("D", None)
    /\ call.out = None
\* C14: the integer index operator on a node that unwraps to a Hash returns
\* the value stored under the key Integer(idx), as in a mapping with the
\* bare keys 0 and 1; on a node that unwraps to an Array the index is a
\* position and no Hash lookup is made.
C14_IntegerKeyLookup ==
    call.op = "index_usize" =>
        LET x == Unwrap(call.arg)
            doc == Hash(<< <<Integer(0), String(<<"a">>)>>, <<Integer(1), Null>> >>)
            rev == Hash(<< <<Integer(1), Null>>, <<Integer(0), String(<<"a">>)>> >>)
        IN  /\ (x.t = "Hash" /\ ~call.idx.top) =>
                  \A j \in 1..Len(x.h) :
                     x.h[j][1] = Integer(call.idx.n) => call.out = x.h[j][2]
            /\ x.t = "Array" =>
                  call.out = IF ~call.idx.top /\ call.idx.n < Len(x.a)
                             THEN x.a[call.idx.n + 1] ELSE BadValue
            /\ index_usize(doc, USize(0)) = String(<<"a">>)
            /\ index_usize(doc, USize(1)) = Null
            /\ index_usize(Anchored("D", doc), USize(1)) = Null
            /\ index_usize(rev, USize(0)) = String(<<"a">>)
            /\ index_usize(rev, USize(1)) = Null

C14_Witness ==
    /\ call.op = "index_usize"
    /\ call.idx = USize(0)
    /\ call.arg = Aliased("D", Some(Hash(<< <<Integer(0), String(<<"a">>)>> >>)))
    /\ call.out = String(<<"a">>)
\* the loader a load_from_str call has after the events evs and nothing else
RECURSIVE Replay(_, _)
Replay(L, evs) ==
    IF evs = <<>> THEN L ELSE Replay(on_event(L, evs[1]), Tail(evs))

\* the anchored nodes among the first k events of a load
AnchorClosedBefore(evs, k) ==
    \E j \in 1..(k - 1) : evs[j].k = "Scalar" /\ evs[j].aid = Some("D")

\* C15: loads in progress side by side do not interfere: each starts from an
\* empty loader, its state and its result are those its own events produce
\* whatever the other loads did in between, and an alias resolves only to an
\* anchor of its own load.
C15_LoadsIndependent ==
    \A i \in Loads :
       LET l == loads[i]
       IN  /\ l.at = "start" => l.L = NewLoader
           /\ l.at # "idle" => l.L = Replay(NewLoader, l.evs)
           /\ l.at = "ok" => l.out = Some(Replay(NewLoader, l.evs).docs)
           /\ (l.evs # <<>> /\ l.evs[Len(l.evs)].k = "Alias") =>
                  (l.L.ins[1].o # None <=> AnchorClosedBefore(l.evs, Len(l.evs)))

C15_Witness ==
    /\ loads["A"].at = "ok" /\ loads["B"].at = "ok"
    /\ loads["A"].out =
          Some(<<Array(<<Anchored("D", String(<<"a">>))>>)>>)
    /\ loads["B"].out = Some(<<Array(<<Aliased("D", None)>>)>>)
\* a tree without Anchored and Aliased nodes
RECURSIVE NoWrappers(_)
NoWrappers(y) ==
    CASE y.t \in {"Anchored", "Aliased"} -> FALSE
      [] y.t = "Array" -> \A j \in 1..Len(y.a) : NoWrappers(y.a[j])
      [] y.t = "Hash" ->
           \A j \in 1..Len(y.h) : NoWrappers(y.h[j][1]) /\ NoWrappers(y.h[j][2])
      [] OTHER -> TRUE

\* a tree without wrappers and without BadValue whose Real leaves hold a
\* text that the plain resolution rules read as a Real
RECURSIVE Loadable(_)
Loadable(y) ==
    CASE y.t \in {"Anchored", "Aliased", "BadValue"} -> FALSE
      [] y.t = "Real" -> from_str(y.s) = Real(y.s)
      [] y.t = "Array" -> \A j \in 1..Len(y.a) : Loadable(y.a[j])
      [] y.t = "Hash" ->
           \A j \in 1..Len(y.h) : Loadable(y.h[j][1]) /\ Loadable(y.h[j][2])
      [] OTHER -> TRUE

C17_TableHoldsBareNode ==
    /\ \A n \in DOMAIN anchor_map : anchor_map[n] = closed[n]
    /\ (AliasProcessed /\ last.ins[1].o # None) =>
          last.ins[1].o[1] = closed[last.ev.id]
\* the Hash that holds the pairs ps, inserted one after the other
RECURSIVE PairsInserted(_)
PairsInserted(ps) ==
    IF ps = <<>> THEN <<>>
    ELSE hash_insert(PairsInserted(SubSeq(ps, 1, Len(ps) - 1)),
                     ps[Len(ps)][1], ps[Len(ps)][2])

\* C18: a mapping's children c1, ..., c2n are paired strictly by position:
\* the closed Hash holds exactly the pairs (c1,c2), ..., (c2n-1,c2n), up to
\* duplicate-key overwrite, for children of every node variant the builder
\* can produce.
C18_PairedByPosition ==
    (last.ev.k = "MappingEnd" /\ last.ins # None /\ Len(last.kids) % 2 = 0) =>
        Content(last.ins[1]).h = PairsInserted(SuppliedPairs(last.kids))

\* C19: at every MappingEnd of a stream in which each mapping received an
\* even number of child nodes, the key-stack slot popped for that mapping
\* shows "no key pending": no pending key is discarded when a mapping
\* closes.
C19_NoPendingKeyAtClose ==
    [][(last'.ev.k = "MappingEnd" /\ Len(last'.kids) % 2 = 0 /\ key_stack # <<>>) =>
          key_stack[Len(key_stack)] = BadValue]_vars
\* C20: the Anchor Table keeps only the newest definition of each anchor
\* name, and an Alias(n) event resolves to the definition of n that closed
\* most recently before it.
C20_NewestDefinitionWins ==
    /\ DOMAIN anchor_map = DOMAIN closed
    /\ \A n \in DOMAIN anchor_map : Content(anchor_map[n]) = closed[n]
    /\ AliasProcessed =>
          /\ last.ins[1].t = "Aliased" /\ last.ins[1].n = last.ev.id
          /\ last.ev.id \in DOMAIN closed =>
                /\ last.ins[1].o # None
                /\ Content(last.ins[1].o[1]) = closed[last.ev.id]
          /\ last.ev.id \notin DOMAIN closed => last.ins[1].o = None

C20_Witness ==
    /\ AliasProcessed
    /\ Len(open) = 1
    /\ Len(open[1].kids) = 3
    /\ open[1].kids[1] = Anchored("D", Real(<<"1",".","5">>))
    /\ open[1].kids[2] = Anchored("D", Hash(<<>>))
    /\ open[1].kids[3].o # None
    /\ Content(open[1].kids[3].o[1]) = Hash(<<>>)
\* DocumentStart and DocumentEnd leave the Anchor Table as it is, and an
\* alias of a name that closed earlier in the load carries a payload
TableKeptStep ==
    /\ last'.ev.k \in {"DocumentStart", "DocumentEnd"} => anchor_map' = anchor_map
    /\ (last'.ev.k = "Alias" /\ map_has(closed, last'.ev.id)) =>
          /\ last'.ins # None
          /\ last'.ins[1].t = "Aliased"
          /\ last'.ins[1].o # None

\* C21: the Anchor Table is never cleared during a load: DocumentStart and
\* DocumentEnd leave it unchanged, so an Alias(n) in a later document
\* resolves to an anchor n that closed in an earlier document.
C21_TablePersists == [][TableKeptStep]_vars

C21_Witness ==
    /\ ndocs = 2 /\ inDoc
    /\ docs = <<Anchored("D", Real(<<"1",".","5">>))>>
    /\ last.ev = AliasEvent("D")
    /\ root = Some(Aliased("D", Some(Anchored("D", Real(<<"1",".","5">>)))))
\* the open container y2 is y with at most one child inserted: the children
\* it had are the same nodes (an entry whose key is supplied again is
\* replaced by the new entry, which goes last)
Extends(y, y2) ==
    CASE y.t = "Array" ->
           /\ y2.t = "Array" /\ Len(y2.a) \in {Len(y.a), Len(y.a) + 1}
           /\ SubSeq(y2.a, 1, Len(y.a)) = y.a
      [] y.t = "Hash" ->
           /\ y2.t = "Hash"
           /\ \A j \in 1..Len(y.h) :
                 \/ \E j2 \in 1..Len(y2.h) : y2.h[j2] = y.h[j]
                 \/ y2.h # <<>> /\ y2.h[Len(y2.h)][1] = y.h[j][1]
      [] OTHER -> y2 = y

\* what a step of the load leaves as it was
FrozenStep ==
    /\ pc' = "loading" =>
          /\ Len(docs') >= Len(docs)
          /\ SubSeq(docs', 1, Len(docs)) = docs
    /\ pc' = "ok" => result' = Some(docs)
    /\ last'.ev.k = "Alias" =>
          last'.ins = Some(Aliased(last'.ev.id, map_get(anchor_map, last'.ev.id)))
    /\ \A i \in 1..Min(Len(doc_stack), Len(doc_stack')) :
          \/ Extends(doc_stack[i].node, doc_stack'[i].node)
          \/ /\ i = Len(doc_stack)
             /\ last'.ev.k \in {"SequenceEnd", "MappingEnd"}
    /\ \A i \in 1..Min(Len(key_stack), Len(key_stack')) :
          \/ key_stack'[i] = key_stack[i]
          \/ /\ i = Len(key_stack')
             /\ key_stack[i] = BadValue \/ key_stack'[i] = BadValue
    /\ last'.ev.k \in {"SequenceEnd", "MappingEnd"} =>
          Content(last'.ins[1]) = doc_stack[Len(doc_stack)].node
    /\ (last'.ev.k = "DocumentEnd" /\ doc_stack # <<>>) =>
          docs'[Len(docs')] = doc_stack[1].node
    /\ pc' = "loading" =>
          \A n \in DOMAIN anchor_map :
             /\ n \in DOMAIN anchor_map'
             /\ anchor_map'[n] = anchor_map[n] \/ ClosingAid(last'.ev) = Some(n)

\* C22: nodes are immutable once constructed and aliasing is copy-of-value:
\* the payload of an alias is the Anchor Table entry at the time of its
\* Alias event, and no later event changes a closed node, an inserted alias
\* payload or an appended document root.
C22_NodesImmutable == [][FrozenStep]_vars

C22_Witness ==
    /\ last.ev.k = "MappingEnd"
    /\ Len(open) = 1
    /\ open[1].kids = << Anchored("D", Real(<<"1",".","5">>)),
                         Aliased("D", Some(Anchored("D", Real(<<"1",".","5">>)))),
                         Anchored("D", Hash(<<>>)) >>
    /\ doc_stack[1].node = Array(open[1].kids)
    /\ anchor_map["D"] = Anchored("D", Hash(<<>>))
\* C23: converting an Input Array or Hash yields an Output container with
\* the same number of entries in the same order, the i-th entry being the
\* conversion of the i-th Input element (of the i-th key and its value); no
\* two entries are merged and none is dropped, for every Hash the loader
\* can build.
C23_ContainersMapIdentically ==
    call.op = "into" =>
        LET y == call.arg
            z == call.out
        IN  /\ y.t = "Array" =>
                  /\ z.out = "Array" /\ Len(z.a) = Len(y.a)
                  /\ \A j \in 1..Len(y.a) : z.a[j] = into(y.a[j])
            /\ y.t = "Hash" =>
                  /\ z.out = "Hash" /\ Len(z.h) = Len(y.h)
                  /\ \A j \in 1..Len(y.h) :
                        z.h[j] = <<into(y.h[j][1]), into(y.h[j][2])>>
\* the positions among the pairs ps that supply the key k
SuppliedAt(ps, k) == {i \in 1..Len(ps) : ps[i][1] = k}

\* C24: when the events of one mapping supply an equal key node more than
\* once, the closed Hash holds a single entry for that key and its value is
\* the one supplied last.
C24_LastWriteWins ==
    (last.ev.k = "MappingEnd" /\ last.ins # None) =>
        LET h == Content(last.ins[1]).h
            ps == SuppliedPairs(last.kids)
        IN  \A j \in 1..Len(ps) :
               Cardinality(SuppliedAt(ps, ps[j][1])) > 1 =>
                  /\ Cardinality(SuppliedAt(h, ps[j][1])) = 1
                  /\ \A i \in SuppliedAt(ps, ps[j][1]) :
                        (\A i2 \in SuppliedAt(ps, ps[j][1]) : i2 <= i) =>
                           hash_get(h, ps[j][1]) = Some(ps[i][2])
\* the text with its letters in lower case
Lower(v) == [k \in 1..Len(v) |-> ToLower(v[k])]

\* a plain scalar that is untagged or tagged !!float
PlainFloatOrUntagged(ev) == PlainUntagged(ev) \/ CoreTagged(ev, "float")

\* the scalar resolved to Real(original text), and that Real reads as f
ReadsAs(f) ==
    /\ last.ins = Some(Real(last.ev.v))
    /\ as_f64(last.ins[1]) = Some(f)

\* C25: a plain scalar, untagged or tagged !!float, whose text is any case
\* variant of .inf or +.inf resolves to Real(text) reading as +infinity,
\* any case variant of -.inf to Real reading as -infinity, and .nan / NaN to
\* Real reading as not-a-number.
C25_SpecialFloatsAnyCase ==
    PlainFloatOrUntagged(last.ev) =>
        /\ Lower(last.ev.v) \in {<<".","i","n","f">>, <<"+",".","i","n","f">>} =>
              ReadsAs(Inf(FALSE))
        /\ Lower(last.ev.v) = <<"-",".","i","n","f">> => ReadsAs(Inf(TRUE))
        /\ last.ev.v \in {<<".","n","a","n">>, <<"N","a","N">>} => ReadsAs(NaN)

\* the three spellings of the core schema: lower case, capitalised, upper
\* case
Spellings(sign) ==
    { sign \o <<".","i","n","f">>, sign \o <<".","I","n","f">>,
      sign \o <<".","I","N","F">> }

\* C25 as amended: the literals are accepted in the spellings .inf, .Inf and
\* .INF, with an optional + sign for +infinity and with - for -infinity,
\* and not-a-number as .nan, NaN and .NAN; a plain scalar, untagged or
\* tagged !!float, with one of these texts resolves to Real(text) reading
\* as that value.  Any other letter case of .inf is no float: it resolves
\* to String untagged and to BadValue under !!float.
C25_SpecialFloatsCoreSpellings ==
    PlainFloatOrUntagged(last.ev) =>
        /\ last.ev.v \in Spellings(<<>>) \cup Spellings(<<"+">>) => ReadsAs(Inf(FALSE))
        /\ last.ev.v \in Spellings(<<"-">>) => ReadsAs(Inf(TRUE))
        /\ last.ev.v \in {<<".","n","a","n">>, <<"N","a","N">>, <<".","N","A","N">>} =>
              ReadsAs(NaN)
        /\ ( /\ Lower(last.ev.v) \in Spellings(<<>>) \cup Spellings(<<"+">>)
                                        \cup Spellings(<<"-">>)
             /\ last.ev.v \notin Spellings(<<>>) \cup Spellings(<<"+">>)
                                        \cup Spellings(<<"-">>) ) =>
              last.ins = Some(IF last.ev.tag = None THEN String(last.ev.v) ELSE BadValue)

C25_Witness ==
    /\ CoreTagged(last.ev, "float")
    /\ last.ev.v = <<"+",".","I","n","f">>
    /\ last.ins = Some(Real(<<"+",".","I","n","f">>))
    /\ as_f64(last.ins[1]) = Some(Inf(FALSE))
\* the value stack mirrors the parser's open containers: one entry per open
\* container, of the container's kind, or the completed root alone
StackMirrorsOpen ==
    /\ Len(doc_stack) = IF open # <<>> THEN Len(open)
                        ELSE IF inDoc /\ root # None THEN 1 ELSE 0
    /\ \A i \in 1..Len(open) :
          doc_stack[i].node.t = IF open[i].kind = "seq" THEN "Array" ELSE "Hash"

\* C26: while the parser delivers a well-nested stream (every Start closed
\* by its End at the same depth, each document one DocumentStart/DocumentEnd
\* pair around at most one root) the loader never panics: when DocumentEnd
\* is due the value stack holds 0 or 1 entries, when a SequenceEnd or
\* MappingEnd is due there is an entry (and for a mapping a key slot) to
\* pop, and when a node is due the value stack is empty or has an Array or
\* a Hash with a key slot on top.
C26_NoProtocolFault ==
    /\ ~fault
    /\ pc = "loading" =>
          /\ StackMirrorsOpen
          /\ (inDoc /\ open = <<>>) => Len(doc_stack) \in {0, 1}
          /\ open # <<>> =>
                /\ doc_stack # <<>>
                /\ open[Len(open)].kind = "map" => key_stack # <<>>
          /\ (inDoc /\ (open # <<>> \/ root = None)) =>
                \/ doc_stack = <<>>
                \/ doc_stack[Len(doc_stack)].node.t = "Array"
                \/ /\ doc_stack[Len(doc_stack)].node.t = "Hash"
                   /\ key_stack # <<>>

C26_Witness ==
    /\ ~fault
    /\ last.ev.k = "DocumentEnd"
    /\ Len(docs) = 2
    /\ docs[1].t = "Hash" /\ Len(docs[1].h) = 1
    /\ docs[1].h[1][2].t = "Array"
    /\ docs[2] = BadValue

\* the open mappings, outermost first
OpenMappings == SelectSeq(open, LAMBDA e : e.kind = "map")

\* C27: during a load of a well-nested stream the key stack has exactly one
\* slot per open mapping, in nesting order with the innermost mapping's slot
\* on top: a slot holds either "no key pending" or the child its mapping
\* completed last; once a DocumentEnd is processed the value stack and the
\* key stack are both empty.
C27_OneSlotPerOpenMapping ==
    pc = "loading" =>
        /\ Len(key_stack) = Len(OpenMappings)
        /\ \A j \in 1..Len(OpenMappings) :
              \/ key_stack[j] = BadValue
              \/ /\ OpenMappings[j].kids # <<>>
                 /\ key_stack[j] = OpenMappings[j].kids[Len(OpenMappings[j].kids)]
        /\ \A j \in 1..Len(OpenMappings) :
              OpenMappings[j].kids = <<>> => key_stack[j] = BadValue
        /\ ~inDoc => doc_stack = <<>> /\ key_stack = <<>>

C27_Witness ==
    /\ pc = "loading"
    /\ Len(open) = 3
    /\ open[1].kind = "map" /\ open[2].kind = "seq" /\ open[3].kind = "map"
    /\ Len(key_stack) = 2
    /\ key_stack[1] = String(<<"a">>)
    /\ key_stack[2] = BadValue
    /\ ndocs = 2
====
